---- MODULE Spec2Model ----
(***************************************************************************)
(* Model of TopoPyScale/fetch_era5.py: the monthly ERA5 request plan of    *)
(* retrieve_era5, its existence filter, the confirmation gate, the thread  *)
(* pool that runs the retrievals, and the two merge wrappers eraCat and    *)
(* eraCat5d.                                                               *)
(*                                                                         *)
(* Strings that the code builds, globs or sorts (paths) are sequences of   *)
(* character codes, so that formatting, prefix matching and lexicographic  *)
(* order are computed and not assumed.  Dates are <<year, month, day>>.    *)
(***************************************************************************)
EXTENDS Integers, Sequences, FiniteSets, TLC

(* ---------------------------------------------------------------------- *)
(* Bounds                                                                 *)
(* ---------------------------------------------------------------------- *)
\* number of consecutive calendar months the start and end dates are drawn from
MaxMonths == 2
\* largest num_threads passed to retrieve_era5
MaxThreads == 2

\* first month of the window of dates
WindowStart == <<2019, 12>>

\* Python's None where a list is expected (time_steps, plevels): a value that
\* is no list of hours or of pressure levels
None == <<-1>>

\* the value of ans before input() has returned
NoAnswer == "<no answer>"

(* ---------------------------------------------------------------------- *)
(* Character strings                                                      *)
(* ---------------------------------------------------------------------- *)
\* "SURF_" and "PLEV_", the prefixes of the monthly files
SURF_ == <<83, 85, 82, 70, 95>>
PLEV_ == <<80, 76, 69, 86, 95>>
\* "SURF" and "PLEV", the grepStr values of the merge wrappers
SURF == <<83, 85, 82, 70>>
PLEV == <<80, 76, 69, 86>>
\* ".nc"
DotNc == <<46, 110, 99>>
\* "/"
Slash == <<47>>
\* "*"
Star == <<42>>
\* the directory eraDir = wd that holds the monthly files ("/d/"), and another
\* directory the process may be started from ("/e/")
EraDir == <<47, 100, 47>>
OtherDir == <<47, 101, 47>>

\* decimal digits of a natural number, most significant first
RECURSIVE Digits(_)
Digits(n) == IF n < 10 THEN <<48 + n>> ELSE Digits(n \div 10) \o <<48 + (n % 10)>>

\* left padding with "0" up to width w, as %0wd does
RECURSIVE ZeroPad(_, _)
ZeroPad(s, w) == IF Len(s) >= w THEN s ELSE ZeroPad(<<48>> \o s, w)

\* "%04d%02d" % (year, month)
FmtYearMonth(year, month) == ZeroPad(Digits(year), 4) \o ZeroPad(Digits(month), 2)

\* s is a prefix of t
IsPrefix(s, t) == Len(s) <= Len(t) /\ SubSeq(t, 1, Len(s)) = s

\* lexicographic order of strings, as list.sort() and the shell order them
RECURSIVE StrLess(_, _)
StrLess(s, t) ==
    IF s = <<>> THEN t # <<>>
    ELSE IF t = <<>> THEN FALSE
    ELSE IF Head(s) # Head(t) THEN Head(s) < Head(t)
    ELSE StrLess(Tail(s), Tail(t))

\* the strings of a set, sorted
RECURSIVE Sorted(_)
Sorted(S) ==
    IF S = {} THEN <<>>
    ELSE LET m == CHOOSE x \in S : \A y \in S : x = y \/ StrLess(x, y)
         IN  <<m>> \o Sorted(S \ {m})

\* x.split('/')[-1]
RECURSIVE Basename(_)
Basename(p) ==
    IF \E i \in 1..Len(p) : p[i] = 47
    THEN Basename(Tail(p))
    ELSE p

\* a path with runs of "/" collapsed, as the file system resolves it
RECURSIVE NormPath(_)
NormPath(p) ==
    IF Len(p) < 2 THEN p
    ELSE IF p[1] = 47 /\ p[2] = 47 THEN NormPath(Tail(p))
    ELSE <<Head(p)>> \o NormPath(Tail(p))

(* ---------------------------------------------------------------------- *)
(* Calendar                                                               *)
(* ---------------------------------------------------------------------- *)
IsLeap(y) == (y % 4 = 0 /\ y % 100 # 0) \/ y % 400 = 0

DaysInMonth(y, m) ==
    IF m = 2 THEN (IF IsLeap(y) THEN 29 ELSE 28)
    ELSE IF m \in {4, 6, 9, 11} THEN 30 ELSE 31

\* d1 <= d2 for dates
DateLE(d1, d2) ==
    \/ d1[1] < d2[1]
    \/ d1[1] = d2[1] /\ d1[2] < d2[2]
    \/ d1[1] = d2[1] /\ d1[2] = d2[2] /\ d1[3] <= d2[3]

\* the month after <<y, m>>
NextYM(ym) == IF ym[2] = 12 THEN <<ym[1] + 1, 1>> ELSE <<ym[1], ym[2] + 1>>

\* the month end on or after a date: the first date of freq='M'
RollForward(d) == <<d[1], d[2], DaysInMonth(d[1], d[2])>>

\* the month end that follows a month end
NextMonthEnd(d) ==
    LET ym == NextYM(<<d[1], d[2]>>)
    IN  <<ym[1], ym[2], DaysInMonth(ym[1], ym[2])>>

\* pd.date_range(startDate, endDate, freq='M'): the month ends within
\* [startDate, endDate], in order
RECURSIVE MonthEnds(_, _)
MonthEnds(cur, end) ==
    IF DateLE(cur, end) THEN <<cur>> \o MonthEnds(NextMonthEnd(cur), end) ELSE <<>>

date_range(startDate, endDate) == MonthEnds(RollForward(startDate), endDate)

(* ---------------------------------------------------------------------- *)
(* Inputs                                                                 *)
(* ---------------------------------------------------------------------- *)
\* the calendar months of the window
RECURSIVE WindowFrom(_, _)
WindowFrom(ym, n) == IF n = 0 THEN {} ELSE {ym} \cup WindowFrom(NextYM(ym), n - 1)

WindowMonths == WindowFrom(WindowStart, MaxMonths)

\* the first and the last day of every month of the window
Dates == UNION {{<<ym[1], ym[2], 1>>, <<ym[1], ym[2], DaysInMonth(ym[1], ym[2])>>} :
                ym \in WindowMonths}

Steps == {1, 2, 3, 6}
SurfPlevs == {"surf", "plev", "era"}
PLevelChoices == {None, <<>>, <<500, 850>>}
Answers == {"y", "Y", "1", "n", "yes", ""}

\* the calls of retrieve_era5 that are explored: startDate <= endDate, and
\* plevels left at its default unless pressure levels are asked for
Calls ==
    {a \in [startDate : Dates, endDate : Dates, step : Steps,
            num_threads : 1..MaxThreads, surf_plev : SurfPlevs,
            plevels : PLevelChoices] :
        /\ DateLE(a.startDate, a.endDate)
        /\ a.surf_plev # "plev" => a.plevels = None}

\* the monthly files of a set of months: the surface and the pressure-level
\* file of each, as earlier runs of the program have left them in eraDir
MonthlyFiles(months) ==
    UNION {{EraDir \o SURF_ \o FmtYearMonth(ym[1], ym[2]) \o DotNc,
            EraDir \o PLEV_ \o FmtYearMonth(ym[1], ym[2]) \o DotNc} : ym \in months}

(* ---------------------------------------------------------------------- *)
(* State                                                                  *)
(* ---------------------------------------------------------------------- *)
VARIABLES
    fs,          \* the paths at which a regular file exists
    pc,          \* where retrieve_era5 is: idle, report, confirm, input,
                 \* starmap, close, returned, exited, raised
    args,        \* the arguments of the call of retrieve_era5
    df,          \* the DataFrame of the plan, one row per month
    report,      \* the file names printed as found and as to download
    download,    \* df.loc[df.file_exist == 0]
    prompted,    \* input() has shown the confirmation prompt
    ans,         \* the answer read by input()
    exitCode,    \* the status sys.exit ended the process with, -1 while it runs
    err,         \* the message of sys.exit, or the exception that was raised
    poolState,   \* none, open, joined
    workers,     \* the number of worker threads of the pool
    busy,        \* what each worker thread that has a batch is doing
    taskq,       \* the task batches no worker has taken yet
    number_left, \* MapResult._number_left: batches not completed yet
    success,     \* MapResult._success
    calls,       \* how many times c.retrieve was called, per request
    merge,       \* the merge wrapper that was called, and where it is
    cmdLog       \* the external commands that were run

vars == <<fs, pc, args, df, report, download, prompted, ans, exitCode, err,
          poolState, workers, busy, taskq, number_left, success, calls, merge,
          cmdLog>>

retrieveVars == <<pc, args, df, report, download, prompted, ans, exitCode, err>>
poolVars == <<poolState, workers, busy, taskq, number_left, success, calls>>
mergeVars == <<merge, cmdLog>>

(* ---------------------------------------------------------------------- *)
(* retrieve_era5: the plan                                                *)
(* ---------------------------------------------------------------------- *)
\* bbox and product are passed through unchanged
BBox == "47.9/5.7/45.75/10.6"
Product == "reanalysis"

\* time_step_dict: the hours of the day for the steps 1, 3 and 6
time_step_dict ==
    [s \in {1, 3, 6} |->
        IF s = 1 THEN [i \in 1..24 |-> i - 1] ELSE [i \in 1..8 |-> 3 * (i - 1)]]

\* dict.get(key): None for a key that is not in the dictionary
DictGet(d, key) == IF key \in DOMAIN d THEN d[key] ELSE None

\* eraDir + "SURF_%04d%02d.nc" % (x.year, x.month), or the same with PLEV_
target_file(eraDir, surf_plev, x) ==
    eraDir \o (IF surf_plev = "surf" THEN SURF_ ELSE PLEV_)
           \o FmtYearMonth(x[1], x[2]) \o DotNc

\* os.path.isfile(x) * 1
file_exist(x) == IF x \in fs THEN 1 ELSE 0

\* the rows of df for a call with surf_plev in {surf, plev}
DataFrame(a) ==
    LET dates == date_range(a.startDate, a.endDate)
        Common(x) ==
            [dates        |-> x,
             month        |-> x[2],
             year         |-> x[1],
             target_file  |-> target_file(EraDir, a.surf_plev, x),
             file_exist   |-> file_exist(target_file(EraDir, a.surf_plev, x)),
             step         |-> a.step,
             time_steps   |-> DictGet(time_step_dict, a.step),
             bbox         |-> BBox,
             product_type |-> Product]
    IN  [i \in 1..Len(dates) |->
            IF a.surf_plev = "surf"
            THEN Common(dates[i])
            ELSE [plevels |-> a.plevels] @@ Common(dates[i])]

\* a selection that compares the flag with >= and so keeps the rows with a
\* file when asked for those without
Rows_atLeast(frame, flag) ==
    LET Test(r) == r.file_exist >= flag
    IN  SelectSeq(frame, Test)

\* the rows of a frame with the given value of file_exist, in the frame's order
Rows(frame, flag) ==
    LET Test(r) == r.file_exist = flag
    IN  SelectSeq(frame, Test)

\* the target_file column with x.split('/')[-1] applied
Basenames(frame) == [i \in 1..Len(frame) |-> Basename(frame[i].target_file)]

\* lines 41-73: the plan, its target files and the existence flags; an exit
\* for a surf_plev that is neither surf nor plev.  The process calls
\* retrieve_era5 before it merges.
BuildPlan ==
    /\ pc = "idle"
    /\ merge.pc = "none"
    /\ \E a \in Calls :
        /\ args' = a
        /\ IF a.surf_plev \in {"surf", "plev"}
           THEN /\ df' = DataFrame(a)
                /\ pc' = "report"
                /\ UNCHANGED <<exitCode, err>>
           ELSE /\ df' = <<>>
                /\ pc' = "exited"
                /\ exitCode' = 1
                /\ err' = "ERROR: surf_plev can only be surf or plev"
    /\ UNCHANGED <<fs, report, download, prompted, ans>>
    /\ UNCHANGED poolVars
    /\ UNCHANGED mergeVars

\* lines 75-86: the first and last date, then the files found and to
\* download; df.dates[0] of a frame without rows raises a LookupError
Report ==
    /\ pc = "report"
    /\ IF Len(df) = 0
       THEN /\ pc' = "raised"
            /\ err' = "LookupError"
            /\ UNCHANGED report
       ELSE /\ pc' = "confirm"
            /\ report' = [found   |-> Basenames(Rows(df, 1)),
                          missing |-> Basenames(Rows(df, 0))]
            /\ UNCHANGED err
    /\ UNCHANGED <<fs, args, df, download, prompted, ans, exitCode>>
    /\ UNCHANGED poolVars
    /\ UNCHANGED mergeVars

\* lines 89-91: the rows to download; the prompt when there is one
Confirm ==
    /\ pc = "confirm"
    /\ download' = Rows(df, 0)
    /\ IF Len(download') > 0
       THEN /\ prompted' = TRUE
            /\ pc' = "input"
       ELSE /\ pc' = "returned"
            /\ UNCHANGED prompted
    /\ UNCHANGED <<fs, args, df, report, ans, exitCode, err>>
    /\ UNCHANGED poolVars
    /\ UNCHANGED mergeVars

(* ---------------------------------------------------------------------- *)
(* retrieve_era5: the confirmation and the pool                           *)
(* ---------------------------------------------------------------------- *)
\* str.lower() on the answers
Lower(s) == IF s = "Y" THEN "y" ELSE s

\* a test that also takes "yes" for an agreement
Affirmative_yes(a) == Lower(a) \in {"y", "yes"} \/ a = "1"

\* (ans.lower() == 'y') or (ans == '1')
Affirmative(a) == Lower(a) = "y" \/ a = "1"

\* the argument tuples zip() builds from the columns of a frame
Zip(frame, surf_plev) ==
    [i \in 1..Len(frame) |->
        LET r == frame[i]
            t == [year |-> r.year, month |-> r.month, bbox |-> r.bbox,
                  target |-> r.target_file, product |-> r.product_type,
                  time |-> r.time_steps]
        IN  IF surf_plev = "surf"
            THEN [fn |-> "era5_request_surf"] @@ t
            ELSE [fn |-> "era5_request_plev", plevels |-> r.plevels] @@ t]

\* a pool with one thread more than asked for
PoolSize_extra(num_threads) == num_threads + 1

\* the number of worker threads ThreadPool(num_threads) starts
PoolSize(num_threads) == num_threads

\* Pool._map_async: the batch size for n tasks on a pool of the given size
ChunkSize(n, size) ==
    IF n = 0 THEN 0
    ELSE (n \div (size * 4)) + (IF n % (size * 4) # 0 THEN 1 ELSE 0)

\* Pool._get_tasks: the tasks cut into batches of chunksize
RECURSIVE Batches(_, _)
Batches(tasks, chunksize) ==
    IF tasks = <<>> THEN <<>>
    ELSE IF Len(tasks) <= chunksize THEN <<tasks>>
    ELSE <<SubSeq(tasks, 1, chunksize)>>
         \o Batches(SubSeq(tasks, chunksize + 1, Len(tasks)), chunksize)

\* a dispatch of every row of the plan
Dispatched_all(frame, pending) == frame

\* the rows whose columns are zipped for the pool: those of download
Dispatched(frame, pending) == pending

\* lines 91-117: the answer; the pool and its tasks, or the exit
Answer ==
    /\ pc = "input"
    /\ \E a \in Answers :
        /\ ans' = a
        /\ IF Affirmative(a)
           THEN LET tasks == Zip(Dispatched(df, download), args.surf_plev)
                    size == PoolSize(args.num_threads)
                    batches == Batches(tasks, ChunkSize(Len(tasks), size))
                IN  /\ poolState' = "open"
                    /\ workers' = size
                    /\ busy' = {}
                    /\ taskq' = batches
                    /\ number_left' = Len(batches)
                    /\ success' = TRUE
                    /\ calls' = [t \in {tasks[i] : i \in 1..Len(tasks)} |-> 0]
                    /\ pc' = "starmap"
                    /\ UNCHANGED <<exitCode, err>>
           ELSE /\ pc' = "exited"
                /\ exitCode' = 1
                /\ err' = "ERROR: Some forcing files are missing"
                /\ UNCHANGED poolVars
    /\ UNCHANGED <<fs, args, df, report, download, prompted>>
    /\ UNCHANGED mergeVars

\* a worker thread that has no batch takes the next one from the task queue.
\* Worker threads are told apart by the batch they hold.
WorkerTake ==
    /\ poolState = "open"
    /\ Cardinality(busy) < workers
    /\ taskq # <<>>
    /\ busy' = busy \cup {[state |-> "batch", rest |-> Head(taskq), cur |-> <<>>]}
    /\ taskq' = Tail(taskq)
    /\ UNCHANGED <<fs, poolState, workers, number_left, success, calls>>
    /\ UNCHANGED retrieveVars
    /\ UNCHANGED mergeVars

\* lines 119-149 and 152-184: the worker calls c.retrieve for the next task
\* of its batch
WorkerCall(b) ==
    /\ b.state = "batch"
    /\ b.rest # <<>>
    /\ LET t == Head(b.rest)
       IN  /\ busy' = (busy \ {b}) \cup {[state |-> "call", rest |-> Tail(b.rest), cur |-> <<t>>]}
           /\ calls' = [calls EXCEPT ![t] = @ + 1]
    /\ UNCHANGED <<fs, poolState, workers, taskq, number_left, success>>
    /\ UNCHANGED retrieveVars
    /\ UNCHANGED mergeVars

\* c.retrieve returns: the file is at target; the batch is complete once its
\* last task is done
RetrieveOK(b) ==
    /\ b.state = "call"
    /\ LET t == b.cur[1]
           last == b.rest = <<>>
       IN  /\ fs' = fs \cup {t.target}
           /\ busy' = IF last THEN busy \ {b}
                      ELSE (busy \ {b}) \cup {[state |-> "batch", rest |-> b.rest, cur |-> <<>>]}
           /\ number_left' = IF last THEN number_left - 1 ELSE number_left
    /\ UNCHANGED <<poolState, workers, taskq, success, calls>>
    /\ UNCHANGED retrieveVars
    /\ UNCHANGED mergeVars

\* c.retrieve raises: a part of the file may be left at target; the rest of
\* the batch is not run and the batch completes as failed
RetrieveFail(b) ==
    /\ b.state = "call"
    /\ LET t == b.cur[1]
       IN  \E partial \in BOOLEAN :
              fs' = IF partial THEN fs \cup {t.target} ELSE fs
    /\ busy' = busy \ {b}
    /\ number_left' = number_left - 1
    /\ success' = FALSE
    /\ UNCHANGED <<poolState, workers, taskq, calls>>
    /\ UNCHANGED retrieveVars
    /\ UNCHANGED mergeVars

\* a result whose exception is dropped
StarmapOutcome_swallowed(ok) == "close"

\* MapResult.get(): what starmap does once the result is ready
StarmapOutcome(ok) == IF ok THEN "close" ELSE "raised"

\* pool.starmap returns, or raises the first exception, once every batch is
\* complete
StarmapReturn ==
    /\ pc = "starmap"
    /\ number_left = 0
    /\ pc' = StarmapOutcome(success)
    /\ err' = IF pc' = "raised" THEN "RetrievalError" ELSE err
    /\ UNCHANGED <<fs, args, df, report, download, prompted, ans, exitCode>>
    /\ UNCHANGED poolVars
    /\ UNCHANGED mergeVars

\* pool.close(); pool.join(): the workers exit once the queue is empty and
\* their batches are done
CloseJoin ==
    /\ pc = "close"
    /\ taskq = <<>>
    /\ busy = {}
    /\ poolState' = "joined"
    /\ pc' = "returned"
    /\ UNCHANGED <<fs, args, df, report, download, prompted, ans, exitCode, err>>
    /\ UNCHANGED <<workers, busy, taskq, number_left, success, calls>>
    /\ UNCHANGED mergeVars

(* ---------------------------------------------------------------------- *)
(* eraCat and eraCat5d                                                    *)
(* ---------------------------------------------------------------------- *)
NoMerge == [pc |-> "none", fn |-> "", grepStr |-> <<>>, cwd |-> <<>>,
            lst |-> <<>>, err |-> ""]

\* glob.glob(prefix + '*'): the files whose path is the prefix followed by
\* characters other than "/"
Glob(prefix) ==
    {f \in fs : /\ IsPrefix(prefix, f)
                /\ \A i \in (Len(prefix) + 1)..Len(f) : f[i] # 47}

\* the words the shell puts in place of prefix*: the matching paths in
\* order, or the pattern itself when nothing matches
ShellWords(prefix) ==
    IF Glob(prefix) = {} THEN <<prefix \o Star>> ELSE Sorted(Glob(prefix))

\* how a merge tool (cdo mergetime, ncks, ncrcat) can end on the given input
\* files: it cannot open a file that does not exist; otherwise it succeeds
\* or fails
ToolOutcomes(inputs) ==
    IF \E i \in 1..Len(inputs) : inputs[i] \notin fs
    THEN {"nofile"}
    ELSE {"ok", "error"}

\* the exit status of the tool
ReturnCode(outcome) == IF outcome = "ok" THEN 0 ELSE 1

\* a call that does not look at the exit status
CheckOutput_ignored(returncode) == ""

\* subprocess.check_output: a non-zero exit status raises CalledProcessError
CheckOutput(returncode) == IF returncode # 0 THEN "CalledProcessError" ELSE ""

\* the files after a tool run that writes output
AfterTool(outcome, output) ==
    IF outcome = "ok" THEN fs \cup {output} ELSE fs

\* the merge wrappers are called from the process that is not inside
\* retrieve_era5: before it is called, or after it has returned
MergeCallable == pc \in {"idle", "returned"} /\ merge.pc = "none"

\* lines 206-207: cdo -b F64 -f nc2 mergetime wd+grepStr* wd/grepStr.nc
eraCat ==
    /\ MergeCallable
    /\ \E grepStr \in {SURF, PLEV} :
        LET wd == EraDir
            inputs == ShellWords(wd \o grepStr)
            output == NormPath(wd \o Slash \o grepStr \o DotNc)
        IN  \E outcome \in ToolOutcomes(inputs) :
              /\ cmdLog' = Append(cmdLog, [tool |-> "cdo", inputs |-> inputs,
                                           output |-> output,
                                           returncode |-> ReturnCode(outcome)])
              /\ fs' = AfterTool(outcome, output)
              /\ merge' = [pc |-> "done", fn |-> "eraCat", grepStr |-> grepStr,
                           cwd |-> EraDir, lst |-> <<>>,
                           err |-> CheckOutput(ReturnCode(outcome))]
    /\ UNCHANGED retrieveVars
    /\ UNCHANGED poolVars

\* lines 230-235: the sorted glob, its first file, and ncks on that file
eraCat5d_ncks ==
    /\ MergeCallable
    /\ \E grepStr \in {SURF, PLEV}, cwd \in {EraDir, OtherDir} :
        LET wd == EraDir
            lst == Sorted(Glob(wd \o grepStr))
            called == [pc |-> "done", fn |-> "eraCat5d", grepStr |-> grepStr,
                       cwd |-> cwd, lst |-> lst, err |-> ""]
        IN  IF lst = <<>>
            THEN /\ merge' = [called EXCEPT !.err = "IndexError"]
                 /\ UNCHANGED <<fs, cmdLog>>
            ELSE LET firstfile == lst[1]
                 IN  \E outcome \in ToolOutcomes(<<firstfile>>) :
                       /\ cmdLog' = Append(cmdLog, [tool |-> "ncks", inputs |-> <<firstfile>>,
                                                    output |-> firstfile,
                                                    returncode |-> ReturnCode(outcome)])
                       /\ fs' = AfterTool(outcome, firstfile)
                       /\ merge' = IF CheckOutput(ReturnCode(outcome)) = ""
                                   THEN [called EXCEPT !.pc = "ncrcat"]
                                   ELSE [called EXCEPT !.err = CheckOutput(ReturnCode(outcome))]
    /\ UNCHANGED retrieveVars
    /\ UNCHANGED poolVars

\* lines 237-238: ncrcat grepStr* grepStr.nc, in the current directory
eraCat5d_ncrcat ==
    /\ merge.pc = "ncrcat"
    /\ LET inputs == ShellWords(merge.cwd \o merge.grepStr)
           output == merge.cwd \o merge.grepStr \o DotNc
       IN  \E outcome \in ToolOutcomes(inputs) :
             /\ cmdLog' = Append(cmdLog, [tool |-> "ncrcat", inputs |-> inputs,
                                          output |-> output,
                                          returncode |-> ReturnCode(outcome)])
             /\ fs' = AfterTool(outcome, output)
             /\ merge' = [merge EXCEPT !.pc = "done",
                                       !.err = CheckOutput(ReturnCode(outcome))]
    /\ UNCHANGED retrieveVars
    /\ UNCHANGED poolVars

(* ---------------------------------------------------------------------- *)
(* Specification                                                          *)
(* ---------------------------------------------------------------------- *)
Init ==
    /\ \E months \in SUBSET WindowMonths : fs = MonthlyFiles(months)
    /\ pc = "idle"
    /\ args = <<>>
    /\ df = <<>>
    /\ report = [found |-> <<>>, missing |-> <<>>]
    /\ download = <<>>
    /\ prompted = FALSE
    /\ ans = NoAnswer
    /\ exitCode = -1
    /\ err = ""
    /\ poolState = "none"
    /\ workers = 0
    /\ busy = {}
    /\ taskq = <<>>
    /\ number_left = 0
    /\ success = TRUE
    /\ calls = <<>>
    /\ merge = NoMerge
    /\ cmdLog = <<>>

Next ==
    \/ BuildPlan
    \/ Report
    \/ Confirm
    \/ Answer
    \/ WorkerTake
    \/ \E b \in busy : WorkerCall(b)
    \/ \E b \in busy : RetrieveOK(b)
    \/ \E b \in busy : RetrieveFail(b)
    \/ StarmapReturn
    \/ CloseJoin
    \/ eraCat
    \/ eraCat5d_ncks
    \/ eraCat5d_ncrcat

Spec == Init /\ [][Next]_vars

(* ---------------------------------------------------------------------- *)
(* Properties                                                             *)
(* ---------------------------------------------------------------------- *)
\* retrieve_era5 has built df with its target files and existence flags
PlanBuilt == pc # "idle" /\ args.surf_plev \in {"surf", "plev"}

\* the calls of c.retrieve that have not ended
InFlight == {b \in busy : b.state = "call"}

\* the number of calls of c.retrieve that wrote to a target
RECURSIVE SumCalls(_)
SumCalls(T) ==
    IF T = {} THEN 0
    ELSE LET t == CHOOSE x \in T : TRUE IN calls[t] + SumCalls(T \ {t})

CallsTo(target) == SumCalls({t \in DOMAIN calls : t.target = target})

NoRetrieval == \A t \in DOMAIN calls : calls[t] = 0

\* the calendar months from the month of startDate to the month of endDate
RECURSIVE MonthsFromTo(_, _)
MonthsFromTo(ym, last) ==
    IF ym = last THEN <<ym>> ELSE <<ym>> \o MonthsFromTo(NextYM(ym), last)

SpanMonths == MonthsFromTo(<<args.startDate[1], args.startDate[2]>>,
                           <<args.endDate[1], args.endDate[2]>>)

\* the rows of a frame whose target file is (keep = TRUE) or is not in a set
\* of paths, in the frame's order
RECURSIVE Keep(_, _, _)
Keep(frame, paths, keep) ==
    IF frame = <<>> THEN <<>>
    ELSE (IF (Head(frame).target_file \in paths) = keep THEN <<Head(frame)>> ELSE <<>>)
         \o Keep(Tail(frame), paths, keep)

\* C1: for startDate <= endDate the plan has exactly one row for each calendar
\* month from the month of startDate to the month of endDate, in order, and
\* no two rows have the same target_file.
C1_PlanCoversSpan ==
    PlanBuilt =>
        /\ [i \in 1..Len(df) |-> <<df[i].year, df[i].month>>] = SpanMonths
        /\ \A i, j \in 1..Len(df) : i # j => df[i].target_file # df[j].target_file

\* C2: once an answer other than "y", "Y" or "1" has been read, the run has
\* ended by sys.exit with a message and a non-zero status, no pool exists, no
\* retrieval was called and no file to download has been written.
C2_DeclineAborts ==
    (ans # NoAnswer /\ ans \notin {"y", "Y", "1"}) =>
        /\ pc = "exited"
        /\ exitCode # 0
        /\ err = "ERROR: Some forcing files are missing"
        /\ poolState = "none"
        /\ NoRetrieval
        /\ \A i \in 1..Len(download) : download[i].target_file \notin fs

C2_Witness ==
    /\ ans = "n"
    /\ pc = "exited"
    /\ Len(download) > 1

\* C3: whenever no row of the plan is to be downloaded, retrieve_era5 shows no
\* prompt, creates no pool, calls no retrieval, and does not end by an
\* exception or an exit.
C3_NothingPendingSucceeds ==
    (PlanBuilt /\ Rows(df, 0) = <<>>) =>
        /\ ~prompted
        /\ poolState = "none"
        /\ NoRetrieval
        /\ pc \notin {"raised", "exited"}

\* the rows to download are known and no file has changed since the flags
\* were computed
Filtered ==
    \/ pc = "input"
    \/ pc = "returned" /\ poolState = "none" /\ merge.pc = "none"

\* C4: once the rows to download are known, and before any file has changed,
\* they are exactly the rows of the plan with no file at target_file, the
\* names printed as found are exactly those of the rows with a file there,
\* each in the plan's order, and every row is in exactly one of the two.
C4_FilterPartitions ==
    Filtered =>
        /\ download = Keep(df, fs, FALSE)
        /\ report.found = Basenames(Keep(df, fs, TRUE))
        /\ report.missing = Basenames(download)
        /\ Len(download) + Len(report.found) = Len(df)
        /\ \A i \in 1..Len(df) :
              (df[i].file_exist = 1) <=> (df[i].target_file \in fs)

C4_Witness ==
    /\ pc = "input"
    /\ Len(download) > 0
    /\ Len(report.found) > 0
    /\ df[1].file_exist = 0
    /\ df[2].file_exist = 1

\* C5: c.retrieve is called at most once for the target of each row to
\* download, never for a row whose file existed, and exactly once for each
\* row to download when every batch has completed without an exception.
C5_EachPendingOnce ==
    /\ \A i \in 1..Len(df) :
          IF df[i].file_exist = 1
          THEN CallsTo(df[i].target_file) = 0
          ELSE CallsTo(df[i].target_file) <= 1
    /\ \A t \in DOMAIN calls :
          calls[t] > 0 => \E i \in 1..Len(download) : download[i].target_file = t.target
    /\ (poolState # "none" /\ success /\ number_left = 0) =>
          \A i \in 1..Len(download) : CallsTo(download[i].target_file) = 1

C5_Witness ==
    /\ poolState # "none"
    /\ success
    /\ number_left = 0
    /\ Len(download) > 0
    /\ Len(download) < Len(df)

\* C6: for a step other than 1, 3 and 6 the run shows no prompt, creates no
\* pool, does not return normally, and no request without a list of times is
\* handed to the pool.
C6_BadStepRejected ==
    (pc # "idle" /\ args.step \notin {1, 3, 6}) =>
        /\ ~prompted
        /\ poolState = "none"
        /\ pc # "returned"
        /\ \A t \in DOMAIN calls : t.time # None

\* C7: for surf_plev = 'plev' with plevels None or empty the run shows no
\* prompt, creates no pool, does not return normally, and no request without
\* pressure levels is handed to the pool.
C7_MissingLevelsRejected ==
    (pc # "idle" /\ args.surf_plev = "plev" /\ args.plevels \in {None, <<>>}) =>
        /\ ~prompted
        /\ poolState = "none"
        /\ pc # "returned"
        /\ \A t \in DOMAIN calls : t.plevels \notin {None, <<>>}

\* the merge that has ended found no file for its pattern
MergedNothing ==
    /\ merge.pc = "done"
    /\ IF merge.fn = "eraCat"
       THEN cmdLog[Len(cmdLog)].inputs = <<EraDir \o merge.grepStr \o Star>>
       ELSE merge.lst = <<>>

\* the file the merge that was called writes
MergeOutput ==
    IF merge.fn = "eraCat"
    THEN EraDir \o merge.grepStr \o DotNc
    ELSE merge.cwd \o merge.grepStr \o DotNc

\* C8: a merge that found no file matching its pattern has ended with an
\* error and has written no merged file; eraCat5d has then run no command.
C8_EmptyGlobFails ==
    MergedNothing =>
        /\ merge.err # ""
        /\ MergeOutput \notin fs
        /\ merge.fn = "eraCat5d" => (cmdLog = <<>> /\ merge.err = "IndexError")

C8_Witness ==
    /\ MergedNothing
    /\ merge.fn = "eraCat"
    /\ merge.err = "CalledProcessError"

\* C9: when retrieve_era5 has returned, no retrieval is in flight, no batch
\* is left, and every file to download is written; a merge never runs while
\* a retrieval is in flight.
C9_ReturnsAfterAllDone ==
    /\ pc = "returned" =>
          /\ InFlight = {}
          /\ taskq = <<>>
          /\ number_left = 0
          /\ \A i \in 1..Len(download) : download[i].target_file \in fs
    /\ merge.pc # "none" => InFlight = {}

C9_Witness ==
    /\ pc = "returned"
    /\ poolState = "joined"
    /\ Len(download) > 1
    /\ merge.pc = "done"
    /\ merge.err = ""

\* C10: the retrievals in flight are never more than num_threads, and no two
\* of them write to the same target.
C10_BoundedInFlight ==
    poolState # "none" =>
        /\ Cardinality(InFlight) <= args.num_threads
        /\ \A v, w \in InFlight :
              v # w => v.cur[1].target # w.cur[1].target

C10_Witness ==
    /\ poolState = "open"
    /\ Cardinality(InFlight) = args.num_threads
    /\ args.num_threads > 1

====
